---- MODULE Spec2Model ----
(***************************************************************************)
(* Model of app/static/sw.js: the service worker of AgencyVault.           *)
(*                                                                         *)
(*   install  -> self.skipWaiting()                                        *)
(*   activate -> event.waitUntil(self.clients.claim())                     *)
(*   fetch    -> event.respondWith(                                        *)
(*                 fetch(event.request)                                    *)
(*                   .catch(() => caches.match(event.request)))            *)
(*                                                                         *)
(* Each handler runs to completion (one action); the promises it leaves    *)
(* pending are settled later by the hosting environment (one action per    *)
(* settlement).  Several fetch events may be in flight at once: one slot   *)
(* per event.                                                              *)
(***************************************************************************)
EXTENDS Naturals, Sequences, FiniteSets

\* Number of fetch events that can be in flight at once.
MaxRequests == 2
\* Number of install events the hosting environment dispatches (updates).
MaxInstalls == 2

Slots == 1..MaxRequests

\* The requests of the controlled pages.
Requests == {"/index.html", "/new-page.html"}

\* Status codes a live response may carry (fetch() resolves for all of them).
LiveStatuses == {200, 404, 500}

\* Status codes of responses previously stored in Cache Storage.
CachedStatuses == {200}

NoRequest == "none"

\* ---- values ------------------------------------------------------------

Undefined == [type |-> "undefined"]

LiveResponse(r, s) ==
    [type |-> "response", origin |-> "network", url |-> r, status |-> s]

StoredResponse(r, s) ==
    [type |-> "response", origin |-> "cache", url |-> r, status |-> s]

\* fetch() rejects with a TypeError when the network call itself fails,
\* and with an AbortError when the request is aborted.
NetworkFailure == [type |-> "error", name |-> "TypeError"]
AbortError == [type |-> "error", name |-> "AbortError"]

\* ---- promises ----------------------------------------------------------

NotCreated == [state |-> "none"]
Pending == [state |-> "pending"]
Fulfilled(v) == [state |-> "fulfilled", value |-> v]
Rejected(e) == [state |-> "rejected", value |-> e]

\* Catch with a handler that starts the lookup but does not return it.
CatchNoReturn(p, q) ==
    IF p.state = "fulfilled" THEN p
    ELSE IF p.state = "rejected" /\ q.state \notin {"none", "pending"}
         THEN [state |-> "fulfilled", value |-> [type |-> "undefined"]]
    ELSE [state |-> "pending"]

\* Catch with a handler that rethrows an AbortError instead of falling back.
CatchRethrowAbort(p, q) ==
    IF p.state = "fulfilled" THEN p
    ELSE IF p.state = "rejected" /\ p.value.name = "AbortError"
            /\ q.state \notin {"none", "pending"} THEN p
    ELSE IF p.state = "rejected" /\ q.state # "none" THEN q
    ELSE [state |-> "pending"]

\* p.catch(h), where q is the promise returned by h once h has run: a
\* fulfilled p passes through, a rejected p is replaced by q (the reason of
\* p is dropped: the handler takes no argument).
Catch(p, q) ==
    IF p.state = "fulfilled" THEN p
    ELSE IF p.state = "rejected" /\ q.state # "none" THEN q
    ELSE Pending

\* respondWith fed by a chain that replaces a missing response by a
\* synthetic "offline" response.
RespondWithOfflinePage(p) ==
    IF p.state = "fulfilled" /\ p.value.type = "response"
    THEN [kind |-> "response", response |-> p.value]
    ELSE [kind |-> "response",
          response |-> [type |-> "response", origin |-> "synthetic",
                        url |-> "/offline", status |-> 503]]

\* What the page that issued the request gets from event.respondWith(p)
\* once p has settled: the Response p is fulfilled with, and a network
\* error when p is rejected or fulfilled with anything but a Response.
RespondWith(p) ==
    IF p.state = "fulfilled" /\ p.value.type = "response"
    THEN [kind |-> "response", response |-> p.value]
    ELSE [kind |-> "network_error"]

\* caches.match(request) on Cache Storage c: the stored response, or
\* undefined when there is none.
CachesMatch(c, r) == c[r]

\* The contents Cache Storage may have: per request, nothing or one stored
\* response.
CacheContents ==
    {c \in [Requests -> {Undefined}
                        \cup {StoredResponse(r, s) : r \in Requests, s \in CachedStatuses}] :
        \A r \in Requests : c[r].type = "response" => c[r].url = r}

VARIABLES
    cache,            \* Cache Storage: request -> stored response | undefined
    swState,          \* ServiceWorker.state of the newest instance
    installEvents,    \* install events dispatched so far
    skipWaitingCalls, \* calls of self.skipWaiting() so far
    skipWaitingP,     \* the promise of the newest instance's skipWaiting()
    claimCalls,       \* calls of self.clients.claim() so far
    claimP,           \* the promise of the newest instance's clients.claim()
    extendLifetime,   \* promises handed to waitUntil by the current event
    activeWorker,     \* the registration has an active worker
    clientsControlled,\* the open pages are controlled by this script
    phase,            \* per slot: idle, fetching, matching, done
    req,              \* per slot: event.request
    fetchP,           \* per slot: the promise of fetch(event.request)
    matchKey,         \* per slot: the request handed to caches.match
    matchP,           \* per slot: the promise of caches.match(...)
    netCalls,         \* per slot: calls of fetch()
    cacheCalls,       \* per slot: calls of caches.match()
    outcomes          \* per slot: what respondWith delivered to the page

lifecycleVars ==
    <<swState, installEvents, skipWaitingCalls, skipWaitingP, claimCalls,
      claimP, extendLifetime, activeWorker, clientsControlled>>

fetchVars ==
    <<phase, req, fetchP, matchKey, matchP, netCalls, cacheCalls, outcomes>>

vars == <<cache, lifecycleVars, fetchVars>>

Init ==
    /\ cache \in CacheContents
    /\ swState = "parsed"
    /\ installEvents = 0
    /\ skipWaitingCalls = 0
    /\ skipWaitingP = NotCreated
    /\ claimCalls = 0
    /\ claimP = NotCreated
    /\ extendLifetime = {}
    /\ activeWorker = FALSE
    /\ clientsControlled = FALSE
    /\ phase = [i \in Slots |-> "idle"]
    /\ req = [i \in Slots |-> NoRequest]
    /\ fetchP = [i \in Slots |-> NotCreated]
    /\ matchKey = [i \in Slots |-> NoRequest]
    /\ matchP = [i \in Slots |-> NotCreated]
    /\ netCalls = [i \in Slots |-> 0]
    /\ cacheCalls = [i \in Slots |-> 0]
    /\ outcomes = [i \in Slots |-> <<>>]

\* ---- install / activate ------------------------------------------------

\* The promise a name in extendLifetime stands for.
LifetimePromise(n) == IF n = "skipWaiting" THEN skipWaitingP ELSE claimP

\* An event is complete once every promise handed to waitUntil has settled.
LifetimeSettled == \A n \in extendLifetime : LifetimePromise(n).state # "pending"

\* An install listener that skips waiting only when no worker is active yet.
InstallOnce ==
    /\ swState \in {"parsed", "activated"}
    /\ installEvents < MaxInstalls
    /\ installEvents' = installEvents + 1
    /\ swState' = "installing"
    /\ skipWaitingCalls' = IF activeWorker THEN skipWaitingCalls ELSE skipWaitingCalls + 1
    /\ skipWaitingP' = IF activeWorker THEN NotCreated ELSE Pending
    /\ claimP' = NotCreated
    /\ extendLifetime' = {}
    /\ UNCHANGED <<cache, claimCalls, activeWorker, clientsControlled, fetchVars>>

\* install listener: self.skipWaiting(), nothing handed to waitUntil.
Install ==
    /\ swState \in {"parsed", "activated"}
    /\ installEvents < MaxInstalls
    /\ installEvents' = installEvents + 1
    /\ swState' = "installing"
    /\ skipWaitingCalls' = skipWaitingCalls + 1
    /\ skipWaitingP' = Pending
    /\ claimP' = NotCreated
    /\ extendLifetime' = {}
    /\ UNCHANGED <<cache, claimCalls, activeWorker, clientsControlled, fetchVars>>

SkipWaitingSettle ==
    /\ skipWaitingP.state = "pending"
    /\ skipWaitingP' = Fulfilled(Undefined)
    /\ UNCHANGED <<cache, swState, installEvents, skipWaitingCalls, claimCalls,
                   claimP, extendLifetime, activeWorker, clientsControlled,
                   fetchVars>>

InstallComplete ==
    /\ swState = "installing"
    /\ LifetimeSettled
    /\ swState' = "installed"
    /\ UNCHANGED <<cache, installEvents, skipWaitingCalls, skipWaitingP,
                   claimCalls, claimP, extendLifetime, activeWorker,
                   clientsControlled, fetchVars>>

\* An activate listener that calls self.clients.claim() without waitUntil.
ActivateNoWaitUntil ==
    /\ swState = "installed"
    /\ ~activeWorker \/ skipWaitingP.state # "none"
    /\ swState' = "activating"
    /\ claimCalls' = claimCalls + 1
    /\ claimP' = Pending
    /\ extendLifetime' = {}
    /\ UNCHANGED <<cache, installEvents, skipWaitingCalls, skipWaitingP,
                   activeWorker, clientsControlled, fetchVars>>

\* activate listener: event.waitUntil(self.clients.claim()).  An installed
\* worker is activated when there is no active worker or when it has asked
\* to skip waiting.
Activate ==
    /\ swState = "installed"
    /\ ~activeWorker \/ skipWaitingP.state # "none"
    /\ swState' = "activating"
    /\ claimCalls' = claimCalls + 1
    /\ claimP' = Pending
    /\ extendLifetime' = {"claim"}
    /\ UNCHANGED <<cache, installEvents, skipWaitingCalls, skipWaitingP,
                   activeWorker, clientsControlled, fetchVars>>

ClaimSettle ==
    /\ claimP.state = "pending"
    /\ claimP' = Fulfilled(Undefined)
    /\ clientsControlled' = TRUE
    /\ UNCHANGED <<cache, swState, installEvents, skipWaitingCalls,
                   skipWaitingP, claimCalls, extendLifetime, activeWorker,
                   fetchVars>>

ActivateComplete ==
    /\ swState = "activating"
    /\ LifetimeSettled
    /\ swState' = "activated"
    /\ activeWorker' = TRUE
    /\ UNCHANGED <<cache, installEvents, skipWaitingCalls, skipWaitingP,
                   claimCalls, claimP, extendLifetime, clientsControlled,
                   fetchVars>>

\* ---- fetch -------------------------------------------------------------

\* The request kept in a variable shared by all fetch events: the catch
\* handler sees the request of the event dispatched last.
EventRequestShared(i) ==
    req[CHOOSE j \in Slots : /\ phase[j] # "idle"
                             /\ \A k \in Slots : phase[k] # "idle" => k <= j]

\* event.request as the catch handler of slot i sees it (closure capture).
EventRequest(i) == req[i]

\* The promise handed to respondWith by slot i.
ResponsePromise(f, m) == Catch(f, m)

\* fetch listener: fetch(event.request) is started, the catch handler is
\* attached and the resulting promise is handed to respondWith.
FetchEvent(i, r) ==
    /\ activeWorker
    /\ phase[i] = "idle"
    /\ req' = [req EXCEPT ![i] = r]
    /\ fetchP' = [fetchP EXCEPT ![i] = Pending]
    /\ netCalls' = [netCalls EXCEPT ![i] = @ + 1]
    /\ phase' = [phase EXCEPT ![i] = "fetching"]
    /\ UNCHANGED <<cache, lifecycleVars, matchKey, matchP, cacheCalls, outcomes>>

\* A chain that also reports the rejection of the live fetch to the page.
FetchRejectsAndSurfaces(i, err) ==
    /\ phase[i] = "fetching"
    /\ fetchP' = [fetchP EXCEPT ![i] = Rejected(err)]
    /\ matchKey' = [matchKey EXCEPT ![i] = EventRequest(i)]
    /\ matchP' = [matchP EXCEPT ![i] = Pending]
    /\ cacheCalls' = [cacheCalls EXCEPT ![i] = @ + 1]
    /\ outcomes' = [outcomes EXCEPT ![i] = Append(@, [kind |-> "network_error"])]
    /\ phase' = [phase EXCEPT ![i] = "matching"]
    /\ UNCHANGED <<cache, lifecycleVars, req, netCalls>>

\* The live fetch rejects with err: the catch handler runs and starts
\* caches.match(event.request).
FetchRejects(i, err) ==
    /\ phase[i] = "fetching"
    /\ fetchP' = [fetchP EXCEPT ![i] = Rejected(err)]
    /\ matchKey' = [matchKey EXCEPT ![i] = EventRequest(i)]
    /\ matchP' = [matchP EXCEPT ![i] = Pending]
    /\ cacheCalls' = [cacheCalls EXCEPT ![i] = @ + 1]
    /\ phase' = [phase EXCEPT ![i] = "matching"]
    /\ UNCHANGED <<cache, lifecycleVars, req, netCalls, outcomes>>

NetReject(i) == FetchRejects(i, NetworkFailure)

\* A chain that treats a live response with an error status as a failure
\* and goes to the cache.
NetResolveOkOnly(i, resp) ==
    /\ phase[i] = "fetching"
    /\ resp.url = req[i]
    /\ fetchP' = [fetchP EXCEPT ![i] = Fulfilled(resp)]
    /\ IF resp.status >= 400
       THEN /\ matchKey' = [matchKey EXCEPT ![i] = EventRequest(i)]
            /\ matchP' = [matchP EXCEPT ![i] = Pending]
            /\ cacheCalls' = [cacheCalls EXCEPT ![i] = @ + 1]
            /\ phase' = [phase EXCEPT ![i] = "matching"]
            /\ UNCHANGED outcomes
       ELSE /\ outcomes' = [outcomes EXCEPT
                              ![i] = Append(@, RespondWith(Catch(fetchP'[i], matchP[i])))]
            /\ phase' = [phase EXCEPT ![i] = "done"]
            /\ UNCHANGED <<matchKey, matchP, cacheCalls>>
    /\ UNCHANGED <<cache, lifecycleVars, req, netCalls>>

\* A worker that remembers a failed fetch of another event ("offline") and
\* then answers from Cache Storage although its own fetch resolved.
NetResolveSticky(i, resp) ==
    /\ phase[i] = "fetching"
    /\ resp.url = req[i]
    /\ fetchP' = [fetchP EXCEPT ![i] = Fulfilled(resp)]
    /\ outcomes' = [outcomes EXCEPT
                      ![i] = Append(@,
                               IF \E j \in Slots \ {i} : fetchP[j].state = "rejected"
                               THEN RespondWith(Fulfilled(CachesMatch(cache, req[i])))
                               ELSE RespondWith(Catch(fetchP'[i], matchP[i])))]
    /\ phase' = [phase EXCEPT ![i] = "done"]
    /\ UNCHANGED <<cache, lifecycleVars, req, matchKey, matchP, netCalls, cacheCalls>>

\* A network-first worker that also stores every live response.
NetResolveAndPut(i, resp) ==
    /\ phase[i] = "fetching"
    /\ resp.url = req[i]
    /\ fetchP' = [fetchP EXCEPT ![i] = Fulfilled(resp)]
    /\ outcomes' = [outcomes EXCEPT
                      ![i] = Append(@, RespondWith(Catch(fetchP'[i], matchP[i])))]
    /\ cache' = [cache EXCEPT ![req[i]] = [resp EXCEPT !.origin = "cache"]]
    /\ phase' = [phase EXCEPT ![i] = "done"]
    /\ UNCHANGED <<lifecycleVars, req, matchKey, matchP, netCalls, cacheCalls>>

\* The live fetch resolves with resp: the catch handler does not run and
\* respondWith delivers.
NetResolve(i, resp) ==
    /\ phase[i] = "fetching"
    /\ resp.url = req[i]
    /\ fetchP' = [fetchP EXCEPT ![i] = Fulfilled(resp)]
    /\ outcomes' = [outcomes EXCEPT
                      ![i] = Append(@, RespondWith(ResponsePromise(fetchP'[i], matchP[i])))]
    /\ phase' = [phase EXCEPT ![i] = "done"]
    /\ UNCHANGED <<cache, lifecycleVars, req, matchKey, matchP, netCalls, cacheCalls>>

\* caches.match settles with the stored response or undefined, and
\* respondWith delivers.
MatchSettle(i) ==
    /\ phase[i] = "matching"
    /\ matchP' = [matchP EXCEPT ![i] = Fulfilled(CachesMatch(cache, matchKey[i]))]
    /\ outcomes' = [outcomes EXCEPT
                      ![i] = Append(@, RespondWith(ResponsePromise(fetchP[i], matchP'[i])))]
    /\ phase' = [phase EXCEPT ![i] = "done"]
    /\ UNCHANGED <<cache, lifecycleVars, req, fetchP, matchKey, netCalls, cacheCalls>>

\* The cache lookup rejects: nothing catches it, respondWith delivers.
MatchRejects(i, err) ==
    /\ phase[i] = "matching"
    /\ matchP' = [matchP EXCEPT ![i] = Rejected(err)]
    /\ outcomes' = [outcomes EXCEPT
                      ![i] = Append(@, RespondWith(ResponsePromise(fetchP[i], matchP'[i])))]
    /\ phase' = [phase EXCEPT ![i] = "done"]
    /\ UNCHANGED <<cache, lifecycleVars, req, fetchP, matchKey, netCalls, cacheCalls>>

\* The hosting environment aborts the request of slot i: whichever
\* operation is pending rejects.
Abort(i) ==
    \/ FetchRejects(i, AbortError)
    \/ MatchRejects(i, AbortError)

\* The page is done with the event of slot i: the next fetch event the
\* listener gets starts from nothing.
Release(i) ==
    /\ phase[i] = "done"
    /\ phase' = [phase EXCEPT ![i] = "idle"]
    /\ req' = [req EXCEPT ![i] = NoRequest]
    /\ fetchP' = [fetchP EXCEPT ![i] = NotCreated]
    /\ matchKey' = [matchKey EXCEPT ![i] = NoRequest]
    /\ matchP' = [matchP EXCEPT ![i] = NotCreated]
    /\ netCalls' = [netCalls EXCEPT ![i] = 0]
    /\ cacheCalls' = [cacheCalls EXCEPT ![i] = 0]
    /\ outcomes' = [outcomes EXCEPT ![i] = <<>>]
    /\ UNCHANGED <<cache, lifecycleVars>>

\* The outcome of a request r handled with nothing else in flight: net is
\* the settled live fetch, c the contents of Cache Storage.
HandledAlone(r, net, c) ==
    RespondWith(Catch(net, Fulfilled(CachesMatch(c, r))))

\* ---- specifications ----------------------------------------------------

Lifecycle ==
    \/ Install
    \/ SkipWaitingSettle
    \/ InstallComplete
    \/ Activate
    \/ ClaimSettle
    \/ ActivateComplete

Routing ==
    \/ \E i \in Slots, r \in Requests : FetchEvent(i, r)
    \/ \E i \in Slots, s \in LiveStatuses : NetResolve(i, LiveResponse(req[i], s))
    \/ \E i \in Slots : NetReject(i)
    \/ \E i \in Slots : MatchSettle(i)
    \/ \E i \in Slots : Release(i)

Next ==
    \/ Lifecycle
    \/ Routing
    \/ \E i \in Slots : Abort(i)

Spec == Init /\ [][Next]_vars

\* The same program in an environment that aborts no request.
NextNoAbort ==
    \/ Lifecycle
    \/ Routing

SpecNoAbort == Init /\ [][NextNoAbort]_vars

\* ---- properties --------------------------------------------------------

Done(i) == phase[i] = "done"

NetFailed(i) == fetchP[i].state = "rejected"

Aborted(i) == fetchP[i] = Rejected(AbortError) \/ matchP[i] = Rejected(AbortError)

CacheHit(i) == cache[req[i]].type = "response"

Response(v) == [kind |-> "response", response |-> v]

NetworkError == [kind |-> "network_error"]

\* C1: a request whose live fetch resolved, with whatever status, is
\* answered with exactly that live response, and caches.match is never
\* called for it.
C1_LiveResponseVerbatim ==
    \A i \in Slots :
        fetchP[i].state = "fulfilled" =>
            /\ Done(i)
            /\ outcomes[i] = <<Response(fetchP[i].value)>>
            /\ fetchP[i].value.origin = "network"
            /\ cacheCalls[i] = 0
            /\ matchP[i] = NotCreated

\* A live response with an error status was delivered although Cache Storage
\* holds an entry for the request.
C1_Witness ==
    \E i \in Slots :
        /\ Done(i)
        /\ fetchP[i].state = "fulfilled"
        /\ fetchP[i].value.status = 500
        /\ CacheHit(i)

C3_MissFails ==
    \A i \in Slots :
        /\ netCalls[i] <= 1
        /\ cacheCalls[i] <= 1
        /\ (Done(i) /\ NetFailed(i) /\ ~CacheHit(i)) =>
              /\ outcomes[i] = <<NetworkError>>
              /\ netCalls[i] = 1
              /\ cacheCalls[i] = 1

C3_Witness ==
    \E i \in Slots :
        /\ Done(i)
        /\ NetFailed(i)
        /\ ~CacheHit(i)
        /\ matchP[i] = Fulfilled(Undefined)

\* C4: skipWaiting has been called exactly once per install event, whether
\* or not a worker was active before, and the install event hands nothing to
\* waitUntil: it can complete while the skipWaiting promise is pending.
C4_SkipWaitingPerInstall ==
    /\ skipWaitingCalls = installEvents
    /\ swState = "installing" => (extendLifetime = {} /\ LifetimeSettled)
    /\ swState \in {"installing", "installed"} => skipWaitingP.state # "none"

\* The second install event is complete while its skipWaiting promise is
\* still pending.
C4_Witness ==
    /\ installEvents = 2
    /\ skipWaitingCalls = 2
    /\ activeWorker
    /\ swState = "installed"
    /\ skipWaitingP.state = "pending"

\* C5: the activate event is complete only once the promise of
\* clients.claim() started by its handler has settled.
C5_ClaimBeforeActivated ==
    /\ swState = "activated" => (claimP.state = "fulfilled" /\ clientsControlled)
    /\ (swState = "activating" /\ claimP.state = "pending") => ~LifetimeSettled

C5_Witness ==
    /\ swState = "activated"
    /\ claimP.state = "fulfilled"
    /\ claimCalls = 2

C8_AbortAlwaysFails ==
    \A i \in Slots :
        (Done(i) /\ Aborted(i)) => outcomes[i] = <<NetworkError>>

\* C8 as amended: a rejected cache lookup is not handled and ends the request
\* as a failed one; a live fetch rejected by an abort is handled as any
\* failed fetch, by the cache lookup, whose result decides the outcome.
C8_AbortFollowsFallback ==
    \A i \in Slots :
        /\ (Done(i) /\ matchP[i].state = "rejected") => outcomes[i] = <<NetworkError>>
        /\ fetchP[i] = Rejected(AbortError) => cacheCalls[i] = 1
        /\ (Done(i) /\ fetchP[i] = Rejected(AbortError) /\ matchP[i].state = "fulfilled") =>
              outcomes[i] = <<IF CacheHit(i) THEN Response(cache[req[i]]) ELSE NetworkError>>

\* One request aborted during the live fetch and answered from the cache,
\* another aborted during the cache lookup.
C8_Witness ==
    \E i, j \in Slots :
        /\ Done(i) /\ Done(j)
        /\ fetchP[i] = Rejected(AbortError)
        /\ outcomes[i][1].kind = "response"
        /\ matchP[j] = Rejected(AbortError)

\* C9: no step of the worker changes Cache Storage, and the control of the
\* open pages changes only by the claim of an activating worker.
C9_CacheReadOnly ==
    [][/\ cache' = cache
       /\ clientsControlled' # clientsControlled =>
             (swState = "activating" /\ claimP.state = "pending")]_vars

\* Install, activate and every kind of fetch outcome have happened over a
\* non-empty Cache Storage.
C9_Witness ==
    /\ installEvents = 2
    /\ swState = "activated"
    /\ clientsControlled
    /\ \E r \in Requests : cache[r].type = "response"
    /\ \E i, j \in Slots :
          /\ Done(i) /\ Done(j)
          /\ fetchP[i].state = "fulfilled"
          /\ matchP[j].state # "none"

====
